---- MODULE Spec2Model ----
(***************************************************************************)
(* Recurring-Date-picker: the two recurrence generators of the repository  *)
(* (generateOccurrences of the RecurringDatePicker hook, and               *)
(* calculateRecurringDates of the zustand page) and the rule-editing       *)
(* handlers that feed them.                                                *)
(*                                                                         *)
(* A JavaScript Date is modelled as a record [day, tod]: day is the local  *)
(* calendar day counted from 0001-01-01 (day 0, a Monday) and tod the time *)
(* of day in ticks after local midnight (0 = midnight).  Time zones and    *)
(* daylight saving are not modelled.                                       *)
(***************************************************************************)
EXTENDS Integers, Sequences, FiniteSets

VARIABLES
    recurrenceRule,  \* useRecurrencePicker: the rule handed to generateOccurrences
    startDate,       \* useRecurrencePicker: startDate state
    endDate,         \* useRecurrencePicker: endDate state (optional)
    showAdvanced,    \* RecurrenceOptions: showAdvanced state
    showEndDate,     \* DateRangePicker: showEndDate state
    count,           \* generateOccurrences: parameter count
    occurrences,     \* generateOccurrences: local occurrences
    currentDate,     \* generateOccurrences: local currentDate
    pc,              \* generateOccurrences: "idle", "loop" or "done"
    store,           \* App.js: the zustand store (frequency, interval, startDate, endDate)
    dates,           \* calculateRecurringDates: local dates
    current,         \* calculateRecurringDates: local current
    apc,             \* calculateRecurringDates: "idle", "loop" or "done"
    nthArgs,         \* getNthWeekdayInMonth: the arguments of the call
    nthResult        \* getNthWeekdayInMonth: the value returned (optional)

vars == <<recurrenceRule, startDate, endDate, showAdvanced, showEndDate,
          count, occurrences, currentDate, pc,
          store, dates, current, apc, nthArgs, nthResult>>

(***************************************************************************)
(* Bounds of the exploration.                                              *)
(***************************************************************************)
MaxInterval == 2
MaxCount == 6
StartSpan == 6
MaxDaysSel == 3
NthSpan == 400
MaxAppDates == 4
UiSpan == 2

(***************************************************************************)
(* Optional values (undefined / null in the source).                       *)
(***************************************************************************)
None == <<>>
Some(x) == <<x>>
IsSome(o) == o # <<>>
Get(o) == o[1]

Min(a, b) == IF a <= b THEN a ELSE b

(***************************************************************************)
(* The JavaScript Date calendar (proleptic Gregorian, local time).         *)
(***************************************************************************)
IsLeapYear(y) == (y % 4 = 0 /\ y % 100 # 0) \/ y % 400 = 0

\* m is a JavaScript month, 0..11.
DaysInMonth(y, m) ==
    IF m = 1 THEN (IF IsLeapYear(y) THEN 29 ELSE 28)
    ELSE IF m \in {3, 5, 8, 10} THEN 30 ELSE 31

DaysBeforeYear(y) ==
    365 * (y - 1) + ((y - 1) \div 4) - ((y - 1) \div 100) + ((y - 1) \div 400)

RECURSIVE DaysBeforeMonth(_, _)
DaysBeforeMonth(y, m) ==
    IF m = 0 THEN 0 ELSE DaysBeforeMonth(y, m - 1) + DaysInMonth(y, m - 1)

\* new Date(y, m, d) as a day number: the month and the day may overflow
\* (month 12 is January of the next year, day 0 the last day of the month
\* before, day 31 of a 30-day month the 1st of the next one).
DayNumber(y, m, d) ==
    LET yy == y + (m \div 12)
        mm == m % 12
    IN  DaysBeforeYear(yy) + DaysBeforeMonth(yy, mm) + (d - 1)

getFullYear(date) ==
    LET n == date.day
    IN  CHOOSE y \in ((n \div 366) + 1)..((n \div 365) + 1) :
            DaysBeforeYear(y) <= n /\ n < DaysBeforeYear(y + 1)

getMonth(date) ==
    LET y == getFullYear(date)
        doy == date.day - DaysBeforeYear(y)
    IN  CHOOSE m \in 0..11 :
            DaysBeforeMonth(y, m) <= doy /\ doy < DaysBeforeMonth(y, m + 1)

getDate(date) ==
    LET y == getFullYear(date)
    IN  date.day - DaysBeforeYear(y) - DaysBeforeMonth(y, getMonth(date)) + 1

\* 0 = Sunday ... 6 = Saturday
getDay(date) == (date.day + 1) % 7

\* new Date(y, m, d): local midnight
NewDate(y, m, d) == [day |-> DayNumber(y, m, d), tod |-> 0]

\* date.setDate(d): the day of the month is replaced, the time of day kept,
\* and a day beyond the month's length rolls into the following month.
setDate(date, d) ==
    [day |-> DayNumber(getFullYear(date), getMonth(date), d), tod |-> date.tod]

\* a > b, a < b and calendar-day equality of two Dates
DateGt(a, b) == a.day > b.day \/ (a.day = b.day /\ a.tod > b.tod)
isBefore(a, b) == a.day < b.day \/ (a.day = b.day /\ a.tod < b.tod)
SameDateString(a, b) == a.day = b.day

(***************************************************************************)
(* date-fns                                                                *)
(***************************************************************************)
addDays(date, amount) == [day |-> date.day + amount, tod |-> date.tod]

addWeeks(date, amount) == addDays(date, amount * 7)

\* addMonths that takes the target month one too low.
addMonthsOffByOne(date, amount) ==
    LET y == getFullYear(date)
        m == getMonth(date) + amount - 1
        dim == DaysInMonth(y + (m \div 12), m % 12)
    IN  [day |-> DayNumber(y, m, Min(getDate(date), dim)), tod |-> date.tod]

\* The day of the month is kept unless the target month is shorter, in
\* which case the result is the target month's last day.
addMonths(date, amount) ==
    LET y == getFullYear(date)
        m == getMonth(date) + amount
        dim == DaysInMonth(y + (m \div 12), m % 12)
    IN  [day |-> DayNumber(y, m, Min(getDate(date), dim)), tod |-> date.tod]

addYears(date, amount) == addMonths(date, amount * 12)

(***************************************************************************)
(* getNthWeekdayInMonth                                                    *)
(***************************************************************************)
MonthWeeks == {"first", "second", "third", "fourth", "last"}
DaysOfWeek == 0..6

\* while (getDay(d) !== weekday) d = addDays(d, step)
RECURSIVE ScanToWeekday(_, _, _)
ScanToWeekday(d, weekday, step) ==
    IF getDay(d) # weekday THEN ScanToWeekday(addDays(d, step), weekday, step)
    ELSE d

\* The offsets counted from 1 instead of 0.
WeekOffsetOneBased(week) ==
    CASE week = "first" -> 7
      [] week = "second" -> 14
      [] week = "third" -> 21
      [] week = "fourth" -> 28

\* The days added to the month's first matching weekday.
WeekOffset(week) ==
    CASE week = "first" -> 0
      [] week = "second" -> 7
      [] week = "third" -> 14
      [] week = "fourth" -> 21

getNthWeekdayInMonth(date, week, weekday) ==
    LET firstDayOfMonth == NewDate(getFullYear(date), getMonth(date), 1)
        lastDayOfMonth == NewDate(getFullYear(date), getMonth(date) + 1, 0)
        firstWeekday == ScanToWeekday(firstDayOfMonth, weekday, 1)
    IN  IF week = "last"
        THEN ScanToWeekday(lastDayOfMonth, weekday, -1)
        ELSE addDays(firstWeekday, WeekOffset(week))

(***************************************************************************)
(* generateOccurrences                                                     *)
(***************************************************************************)
\* rule.daysOfWeek.find((d) => d > currentDay) || rule.daysOfWeek[0]
RECURSIVE FindGreater(_, _, _)
FindGreater(days, currentDay, i) ==
    IF i > Len(days) THEN None
    ELSE IF days[i] > currentDay THEN Some(days[i])
    ELSE FindGreater(days, currentDay, i + 1)

NextDay(days, currentDay) ==
    LET found == FindGreater(days, currentDay, 1)
    IN  IF IsSome(found) /\ Get(found) # 0 THEN Get(found) ELSE days[1]

\* rule.daysOfWeek?.length
HasDaysOfWeek(rule) == IsSome(rule.daysOfWeek) /\ Len(Get(rule.daysOfWeek)) > 0

\* One pass through the switch of the while loop: the new currentDate.
NextDate(rule, cur) ==
    CASE rule.type = "daily" -> addDays(cur, rule.interval)
      [] rule.type = "weekly" ->
            LET jumped == addDays(cur, 7 * rule.interval)
            IN  IF HasDaysOfWeek(rule)
                THEN LET currentDay == getDay(jumped)
                         nextDay == NextDay(Get(rule.daysOfWeek), currentDay)
                     IN  addDays(jumped, (nextDay - currentDay + 7) % 7)
                ELSE jumped
      [] rule.type = "monthly" ->
            IF IsSome(rule.monthDay) /\ Get(rule.monthDay) # 0
            THEN setDate(addMonths(cur, rule.interval), Get(rule.monthDay))
            ELSE IF IsSome(rule.monthWeek) /\ IsSome(rule.monthWeekDay)
            THEN getNthWeekdayInMonth(addMonths(cur, rule.interval),
                                      Get(rule.monthWeek), Get(rule.monthWeekDay))
            ELSE addMonths(cur, rule.interval)
      [] rule.type = "yearly" -> addYears(cur, rule.interval)
      [] OTHER -> cur

\* The loop condition with <= for <.
LoopWhileAtMost(occs, n) == Len(occs) <= n

\* while (occurrences.length < count)
LoopCondition(occs, n) == Len(occs) < n

\* rule.endDate && currentDate > rule.endDate
PastEndDate(rule, cur) ==
    IF IsSome(rule.endDate) THEN DateGt(cur, Get(rule.endDate)) ELSE FALSE

\* One iteration of the while loop, or the return that follows it.
GenStep ==
    /\ pc = "loop"
    /\ \/ /\ LoopCondition(occurrences, count)
          /\ ~PastEndDate(recurrenceRule, NextDate(recurrenceRule, currentDate))
          /\ currentDate' = NextDate(recurrenceRule, currentDate)
          /\ occurrences' = Append(occurrences, currentDate')
          /\ pc' = "loop"
       \/ /\ LoopCondition(occurrences, count)
          /\ PastEndDate(recurrenceRule, NextDate(recurrenceRule, currentDate))
          /\ currentDate' = NextDate(recurrenceRule, currentDate)
          /\ occurrences' = occurrences
          /\ pc' = "done"
       \/ /\ ~LoopCondition(occurrences, count)
          /\ currentDate' = currentDate
          /\ occurrences' = occurrences
          /\ pc' = "done"
    /\ UNCHANGED <<recurrenceRule, startDate, endDate, showAdvanced, showEndDate,
                   count, store, dates, current, apc, nthArgs, nthResult>>

\* count: number = 30
DefaultCount == 30

\* generateOccurrences as a function: the list the while loop has built
\* when it ends, from the list occs and the cursor cur.
RECURSIVE GenerateFrom(_, _, _, _)
GenerateFrom(rule, n, occs, cur) ==
    IF LoopCondition(occs, n)
    THEN LET next == NextDate(rule, cur)
         IN  IF PastEndDate(rule, next) THEN occs
             ELSE GenerateFrom(rule, n, Append(occs, next), next)
    ELSE occs

\* const occurrences = generateOccurrences(recurrenceRule)
generateOccurrences(rule, n) ==
    GenerateFrom(rule, n, <<rule.startDate>>, rule.startDate)

(***************************************************************************)
(* The rules explored.                                                     *)
(***************************************************************************)
\* Sunday 28 January 2024: the start window runs over the end of January
\* of a leap year and holds every day of the week.
StartBase == DayNumber(2024, 0, 28)

\* new Date() is some time after midnight, parseISO of a date input is
\* local midnight.
TimesOfDay == 0..1

StartDates == [day : StartBase..(StartBase + StartSpan), tod : TimesOfDay]

\* No end date, or the end date input's value: the start day or the next.
EndDatesFor(start) ==
    {None} \cup {Some([day |-> start.day + k, tod |-> 0]) : k \in 0..1}

\* The selections handleDayToggle builds: ascending, without repetition.
SortedDaySeqs ==
    {s \in UNION {[1..n -> DaysOfWeek] : n \in 0..MaxDaysSel} :
        \A i \in 1..(Len(s) - 1) : s[i] < s[i + 1]}

MonthDays == {1, 15, 28, 29, 30, 31}

Shape(type, days, monthDay, monthWeek, monthWeekDay) ==
    [type |-> type, daysOfWeek |-> days, monthDay |-> monthDay,
     monthWeek |-> monthWeek, monthWeekDay |-> monthWeekDay]

\* Each type with the fields its branch of the switch reads; a monthly rule
\* with an ordinal carries no monthDay or the one handleTypeChange left.
RuleShapes(start) ==
    {Shape(t, None, None, None, None) : t \in {"daily", "yearly", "custom"}}
    \cup {Shape("weekly", d, None, None, None) :
            d \in {None} \cup {Some(s) : s \in SortedDaySeqs}}
    \cup {Shape("monthly", None, Some(md), None, None) : md \in MonthDays}
    \cup {Shape("monthly", None, md, mw, mwd) :
            md \in {None},
            mw \in {None} \cup {Some(w) : w \in MonthWeeks},
            mwd \in {None} \cup {Some(d) : d \in DaysOfWeek}}
    \cup {Shape("monthly", None, Some(getDate(start)), Some(w), mwd) :
            w \in MonthWeeks, mwd \in {None, Some(getDay(start))}}

MkRule(shape, interval, start, end) ==
    [type |-> shape.type, interval |-> interval, daysOfWeek |-> shape.daysOfWeek,
     monthDay |-> shape.monthDay, monthWeek |-> shape.monthWeek,
     monthWeekDay |-> shape.monthWeekDay, startDate |-> start, endDate |-> end]

\* The zustand store's initial value, and the idle values of the locals.
IdleDate == [day |-> StartBase, tod |-> 0]
IdleStore == [frequency |-> "weekly", interval |-> 1, startDate |-> IdleDate, endDate |-> None]
IdleNthArgs == [date |-> IdleDate, week |-> "first", weekday |-> 0]

(***************************************************************************)
(* GenSpec: generateOccurrences as a function of its arguments.  The       *)
(* initial state is the one its first two statements leave: occurrences    *)
(* holds rule.startDate and currentDate is a copy of it.                   *)
(***************************************************************************)
GenInit ==
    /\ \E start \in StartDates, interval \in 0..MaxInterval :
         \E end \in EndDatesFor(start), shape \in RuleShapes(start) :
            /\ recurrenceRule = MkRule(shape, interval, start, end)
            /\ startDate = start
            /\ endDate = end
    /\ count \in 0..MaxCount
    /\ showAdvanced = FALSE
    /\ showEndDate = FALSE
    /\ occurrences = <<recurrenceRule.startDate>>
    /\ currentDate = recurrenceRule.startDate
    /\ pc = "loop"
    /\ store = IdleStore
    /\ dates = <<>>
    /\ current = IdleDate
    /\ apc = "idle"
    /\ nthArgs = IdleNthArgs
    /\ nthResult = None

GenNext == GenStep

GenSpec == GenInit /\ [][GenNext]_vars

(***************************************************************************)
(* NthSpec: getNthWeekdayInMonth as a function of its arguments.           *)
(***************************************************************************)
\* 1 December 2023: the window holds a leap February and every month length.
NthBase == DayNumber(2023, 11, 1)

NthInit ==
    /\ nthArgs \in [date : [day : NthBase..(NthBase + NthSpan), tod : TimesOfDay],
                    week : MonthWeeks, weekday : DaysOfWeek]
    /\ nthResult = None
    /\ recurrenceRule = MkRule(Shape("weekly", None, None, None, None), 1, IdleDate, None)
    /\ startDate = IdleDate
    /\ endDate = None
    /\ showAdvanced = FALSE
    /\ showEndDate = FALSE
    /\ count = 0
    /\ occurrences = <<>>
    /\ currentDate = IdleDate
    /\ pc = "idle"
    /\ store = IdleStore
    /\ dates = <<>>
    /\ current = IdleDate
    /\ apc = "idle"

NthCall ==
    /\ nthResult = None
    /\ nthResult' = Some(getNthWeekdayInMonth(nthArgs.date, nthArgs.week, nthArgs.weekday))
    /\ UNCHANGED <<recurrenceRule, startDate, endDate, showAdvanced, showEndDate,
                   count, occurrences, currentDate, pc, store, dates, current, apc,
                   nthArgs>>

NthNext == NthCall

NthSpec == NthInit /\ [][NthNext]_vars

(***************************************************************************)
(* AppSpec: the zustand page.  Home renders after every store update and   *)
(* each render runs calculateRecurringDates on the store's values.         *)
(***************************************************************************)
Frequencies == {"daily", "weekly", "monthly", "yearly"}

\* Number(e.target.value) of the interval input: any integer typed, and 0
\* for an emptied field.
AppIntervals == (-1)..MaxInterval

\* new Date(e.target.value) of a date input
AppDateInputs == [day : StartBase..(StartBase + StartSpan), tod : {0}]

AppEndDatesFor(start) ==
    {None} \cup {Some([day |-> start.day + k, tod |-> 0]) : k \in (-1)..1}

\* while (!end || isBefore(current, end) || current.toDateString() === end.toDateString())
AppLoopCondition(cur, end) ==
    IF ~IsSome(end) THEN TRUE
    ELSE isBefore(cur, Get(end)) \/ SameDateString(cur, Get(end))

\* The switch of the loop body.
AppAdvance(freq, interval, cur) ==
    CASE freq = "daily" -> addDays(cur, interval)
      [] freq = "weekly" -> addWeeks(cur, interval)
      [] freq = "monthly" -> addMonths(cur, interval)
      [] freq = "yearly" -> addYears(cur, interval)

\* const dates = []; let current = new Date(start)
AppRender(newStore) ==
    /\ store' = newStore
    /\ dates' = <<>>
    /\ current' = newStore.startDate
    /\ apc' = "loop"
    /\ UNCHANGED <<recurrenceRule, startDate, endDate, showAdvanced, showEndDate,
                   count, occurrences, currentDate, pc, nthArgs, nthResult>>

AppInit ==
    /\ \E freq \in Frequencies, interval \in 1..MaxInterval, start \in StartDates :
         \E end \in AppEndDatesFor(start) :
            store = [frequency |-> freq, interval |-> interval,
                     startDate |-> start, endDate |-> end]
    /\ dates = <<>>
    /\ current = store.startDate
    /\ apc = "loop"
    /\ recurrenceRule = MkRule(Shape("weekly", None, None, None, None), 1, IdleDate, None)
    /\ startDate = IdleDate
    /\ endDate = None
    /\ showAdvanced = FALSE
    /\ showEndDate = FALSE
    /\ count = 0
    /\ occurrences = <<>>
    /\ currentDate = IdleDate
    /\ pc = "idle"
    /\ nthArgs = IdleNthArgs
    /\ nthResult = None

\* One iteration of the while loop, or the return that follows it.  The
\* exploration follows a run for MaxAppDates iterations.
AppStep ==
    /\ apc = "loop"
    /\ \/ /\ AppLoopCondition(current, store.endDate)
          /\ Len(dates) < MaxAppDates
          /\ dates' = Append(dates, current)
          /\ current' = AppAdvance(store.frequency, store.interval, current)
          /\ apc' = "loop"
       \/ /\ ~AppLoopCondition(current, store.endDate)
          /\ dates' = dates
          /\ current' = current
          /\ apc' = "done"
    /\ UNCHANGED <<recurrenceRule, startDate, endDate, showAdvanced, showEndDate,
                   count, occurrences, currentDate, pc, store, nthArgs, nthResult>>

setFrequency(freq) ==
    /\ apc = "done"
    /\ AppRender([store EXCEPT !.frequency = freq])

setInterval(int) ==
    /\ apc = "done"
    /\ AppRender([store EXCEPT !.interval = int])

setStartDate(date) ==
    /\ apc = "done"
    /\ AppRender([store EXCEPT !.startDate = date])

setEndDate(date) ==
    /\ apc = "done"
    /\ AppRender([store EXCEPT !.endDate = date])

AppNext ==
    \/ AppStep
    \/ \E freq \in Frequencies : setFrequency(freq)
    \/ \E int \in AppIntervals : setInterval(int)
    \/ \E date \in AppDateInputs : setStartDate(date)
    \/ \E date \in {None} \cup {Some(d) : d \in AppDateInputs} : setEndDate(date)

AppSpec == AppInit /\ [][AppNext]_vars

(***************************************************************************)
(* UiSpec: the rule-editing handlers of RecurringDatePicker.               *)
(***************************************************************************)
\* parseISO(e.target.value) of a date input: local midnight
UiDateInputs == [day : (StartBase + 2)..(StartBase + 2 + UiSpan), tod : {0}]

\* The text of the interval input as parseInt reads it: an integer, or NaN
\* (None) for an emptied field.
IntervalTexts == {None} \cup {Some(n) : n \in (-1)..MaxInterval}

\* parseInt(e.target.value) || 1
ParseIntOr1(text) == IF IsSome(text) /\ Get(text) # 0 THEN Get(text) ELSE 1

\* onChange of RecurrenceOptions:
\* setRecurrenceRule({ ...newRule, startDate, endDate })
OnChange(newRule) ==
    /\ recurrenceRule' = [newRule EXCEPT !.startDate = startDate, !.endDate = endDate]
    /\ UNCHANGED <<startDate, endDate, showEndDate,
                   count, occurrences, currentDate, pc, store, dates, current, apc,
                   nthArgs, nthResult>>

\* The defaults of the switch in handleTypeChange.
TypeDefaults(rule, type) ==
    CASE type = "weekly" ->
            [rule EXCEPT !.type = type, !.interval = 1,
                         !.daysOfWeek = Some(<<getDay(rule.startDate)>>),
                         !.monthDay = None, !.monthWeek = None, !.monthWeekDay = None]
      [] type = "monthly" ->
            [rule EXCEPT !.type = type, !.interval = 1, !.daysOfWeek = None,
                         !.monthDay = Some(getDate(rule.startDate)),
                         !.monthWeek = None, !.monthWeekDay = None]
      [] OTHER ->
            [rule EXCEPT !.type = type, !.interval = 1, !.daysOfWeek = None,
                         !.monthDay = None, !.monthWeek = None, !.monthWeekDay = None]

handleTypeChange(type) ==
    /\ OnChange(TypeDefaults(recurrenceRule, type))
    /\ UNCHANGED showAdvanced

handleIntervalChange(interval) ==
    /\ OnChange([recurrenceRule EXCEPT !.interval = interval])
    /\ UNCHANGED showAdvanced

\* days.splice(index, 1)
RemoveAt(days, index) ==
    [i \in 1..(Len(days) - 1) |-> IF i < index THEN days[i] ELSE days[i + 1]]

\* days.push(day); days.sort((a, b) => a - b)
RECURSIVE InsertSorted(_, _)
InsertSorted(days, day) ==
    IF days = <<>> THEN <<day>>
    ELSE IF day <= days[1] THEN <<day>> \o days
    ELSE <<days[1]>> \o InsertSorted(Tail(days), day)

RECURSIVE SortAscending(_)
SortAscending(days) ==
    IF days = <<>> THEN <<>>
    ELSE InsertSorted(SortAscending(Tail(days)), days[1])

\* days.indexOf(day), 1-based; 0 when absent
IndexOf(days, day) ==
    IF \E i \in 1..Len(days) : days[i] = day
    THEN CHOOSE i \in 1..Len(days) : days[i] = day /\ \A j \in 1..(i - 1) : days[j] # day
    ELSE 0

ToggledDays(rule, day) ==
    LET days == IF IsSome(rule.daysOfWeek) THEN Get(rule.daysOfWeek) ELSE <<>>
        index == IndexOf(days, day)
    IN  IF index >= 1 THEN RemoveAt(days, index)
        ELSE SortAscending(Append(days, day))

\* The weekday buttons are rendered for a weekly rule only.
handleDayToggle(day) ==
    /\ recurrenceRule.type = "weekly"
    /\ OnChange([recurrenceRule EXCEPT !.daysOfWeek = Some(ToggledDays(recurrenceRule, day))])
    /\ UNCHANGED showAdvanced

\* The "Day N" button of a monthly rule.
SelectMonthDay ==
    /\ recurrenceRule.type = "monthly"
    /\ OnChange([recurrenceRule EXCEPT !.monthWeek = None, !.monthWeekDay = None,
                                       !.monthDay = Some(getDate(recurrenceRule.startDate))])
    /\ UNCHANGED showAdvanced

\* The "Advanced" button of a monthly rule: setShowAdvanced(!showAdvanced)
ToggleAdvanced ==
    /\ recurrenceRule.type = "monthly"
    /\ showAdvanced' = ~showAdvanced
    /\ UNCHANGED <<recurrenceRule, startDate, endDate, showEndDate,
                   count, occurrences, currentDate, pc, store, dates, current, apc,
                   nthArgs, nthResult>>

\* The two selects are rendered for a monthly rule with showAdvanced.
handleMonthWeekChange(week) ==
    /\ recurrenceRule.type = "monthly"
    /\ showAdvanced
    /\ OnChange([recurrenceRule EXCEPT !.monthWeek = Some(week)])
    /\ UNCHANGED showAdvanced

handleMonthWeekDayChange(day) ==
    /\ recurrenceRule.type = "monthly"
    /\ showAdvanced
    /\ OnChange([recurrenceRule EXCEPT !.monthWeekDay = Some(day)])
    /\ UNCHANGED showAdvanced

\* setStartDate(date); setRecurrenceRule({ ...recurrenceRule, startDate: date })
onStartDateChange(date) ==
    /\ startDate' = date
    /\ recurrenceRule' = [recurrenceRule EXCEPT !.startDate = date]
    /\ UNCHANGED <<endDate, showAdvanced, showEndDate,
                   count, occurrences, currentDate, pc, store, dates, current, apc,
                   nthArgs, nthResult>>

\* setEndDate(date); setRecurrenceRule({ ...recurrenceRule, endDate: date })
onEndDateChange(date) ==
    /\ endDate' = date
    /\ recurrenceRule' = [recurrenceRule EXCEPT !.endDate = date]
    /\ UNCHANGED <<startDate, showAdvanced,
                   count, occurrences, currentDate, pc, store, dates, current, apc,
                   nthArgs, nthResult>>

\* min={format(startDate, 'yyyy-MM-dd')} of the end date input: the days
\* its picker offers.
EndDateMin(date, start) == date.day >= start.day

\* The end date input is rendered with showEndDate.
EditEndDate(date) ==
    /\ showEndDate
    /\ EndDateMin(date, startDate)
    /\ onEndDateChange(Some(date))
    /\ UNCHANGED showEndDate

\* The "Set end date" checkbox:
\* setShowEndDate(checked); if (!checked) onEndDateChange(undefined)
ToggleEndDate ==
    IF showEndDate
    THEN /\ showEndDate' = FALSE
         /\ onEndDateChange(None)
    ELSE /\ showEndDate' = TRUE
         /\ UNCHANGED <<recurrenceRule, startDate, endDate, showAdvanced,
                        count, occurrences, currentDate, pc, store, dates, current,
                        apc, nthArgs, nthResult>>

\* useRecurrencePicker(new Date()): a weekly rule of interval 1 with no
\* other field, no end date.
UiInit ==
    /\ startDate \in [day : (StartBase + 2)..(StartBase + 2 + UiSpan), tod : {1}]
    /\ endDate = None
    /\ recurrenceRule = MkRule(Shape("weekly", None, None, None, None), 1, startDate, None)
    /\ showAdvanced = FALSE
    /\ showEndDate = FALSE
    /\ count = 0
    /\ occurrences = <<>>
    /\ currentDate = IdleDate
    /\ pc = "idle"
    /\ store = IdleStore
    /\ dates = <<>>
    /\ current = IdleDate
    /\ apc = "idle"
    /\ nthArgs = IdleNthArgs
    /\ nthResult = None

UiNext ==
    \/ \E type \in Frequencies : handleTypeChange(type)
    \/ \E text \in IntervalTexts : handleIntervalChange(ParseIntOr1(text))
    \/ \E day \in DaysOfWeek : handleDayToggle(day)
    \/ SelectMonthDay
    \/ ToggleAdvanced
    \/ \E week \in MonthWeeks : handleMonthWeekChange(week)
    \/ \E day \in DaysOfWeek : handleMonthWeekDayChange(day)
    \/ \E date \in UiDateInputs : onStartDateChange(date)
    \/ \E date \in UiDateInputs : EditEndDate(date)
    \/ ToggleEndDate

UiSpec == UiInit /\ [][UiNext]_vars

(***************************************************************************)
(* Properties                                                              *)
(***************************************************************************)
ListedTypes == {"daily", "weekly", "monthly", "yearly"}

\* The months of a date counted from year 0: year * 12 + month.
MonthIndex(date) == getFullYear(date) * 12 + getMonth(date)

\* C1 (GenSpec): for a rule of interval >= 1 of type daily, weekly, monthly
\* or yearly, each element of occurrences is on a strictly later calendar
\* date than the element before it.
C1_StrictlyIncreasing ==
    (recurrenceRule.type \in ListedTypes /\ recurrenceRule.interval >= 1)
    => \A i \in 1..(Len(occurrences) - 1) : occurrences[i].day < occurrences[i + 1].day

\* A finished weekly run over two or more selected weekdays with at least
\* three occurrences.
C1_Witness ==
    /\ pc = "done"
    /\ recurrenceRule.interval >= 1
    /\ Len(occurrences) >= 3
    /\ recurrenceRule.type = "weekly"
    /\ HasDaysOfWeek(recurrenceRule)
    /\ Len(Get(recurrenceRule.daysOfWeek)) >= 2

\* C2 (AppSpec): generation is bounded.  Stated as the progress argument of
\* the claim: an iteration after which calculateRecurringDates keeps
\* generating has an end date to reach (the function takes no count) and
\* has moved the cursor strictly forward; a step that does not advance
\* stops the generation.
C2_BoundedProgress ==
    [][(apc = "loop" /\ apc' = "loop")
        => (IsSome(store.endDate) /\ isBefore(current, current'))]_vars

\* C3 (AppSpec): the list calculateRecurringDates returns is non-empty and
\* its first element is the start date.
C3_FirstIsStartDate ==
    apc = "done" => (Len(dates) >= 1 /\ dates[1] = store.startDate)

\* C4 (GenSpec): without an endDate and with count > 0, generateOccurrences
\* returns exactly count elements.
C4_ExactCount ==
    (pc = "done" /\ ~IsSome(recurrenceRule.endDate) /\ count > 0)
    => Len(occurrences) = count

\* A finished run of more than one element without endDate.
C4_Witness ==
    /\ pc = "done"
    /\ ~IsSome(recurrenceRule.endDate)
    /\ count = MaxCount
    /\ recurrenceRule.type = "monthly"
    /\ recurrenceRule.interval = MaxInterval

\* C5 (GenSpec): for a rule of interval >= 1 whose endDate is on or after
\* its startDate, endDate is an inclusive bound by calendar date: no element
\* is on a later calendar date than endDate, the last candidate computed is
\* in the list when it is on endDate's calendar date, and the list is
\* <<startDate>> when endDate is on startDate's calendar date.
C5_EndDateInclusive ==
    (/\ pc = "done"
     /\ IsSome(recurrenceRule.endDate)
     /\ recurrenceRule.type \in ListedTypes
     /\ recurrenceRule.interval >= 1)
    => LET end == Get(recurrenceRule.endDate)
       IN  /\ \A i \in 1..Len(occurrences) : occurrences[i].day <= end.day
           /\ currentDate.day = end.day
                => \E i \in 1..Len(occurrences) : occurrences[i] = currentDate
           /\ end.day = recurrenceRule.startDate.day
                => occurrences = <<recurrenceRule.startDate>>

\* C6 (GenSpec): weekly, interval 1, daysOfWeek Monday, Wednesday, Friday,
\* from a Monday: the first six occurrences are 0, 2, 4, 7, 9 and 11 days
\* after startDate.
C6_MonWedFri ==
    (/\ pc = "done"
     /\ recurrenceRule.type = "weekly"
     /\ recurrenceRule.interval = 1
     /\ recurrenceRule.daysOfWeek = Some(<<1, 3, 5>>)
     /\ getDay(recurrenceRule.startDate) = 1
     /\ ~IsSome(recurrenceRule.endDate)
     /\ count = 6)
    => [i \in 1..Len(occurrences) |-> occurrences[i].day - recurrenceRule.startDate.day]
         = <<0, 2, 4, 7, 9, 11>>

\* C7 (GenSpec): for a monthly rule with monthDay, each occurrence after the
\* first lies in the month interval months after the one before it, on day
\* monthDay or, when that month is shorter, on its last day.
C7_MonthDayClamped ==
    (/\ recurrenceRule.type = "monthly"
     /\ IsSome(recurrenceRule.monthDay)
     /\ recurrenceRule.interval >= 1)
    => \A i \in 1..(Len(occurrences) - 1) :
          LET next == occurrences[i + 1]
          IN  /\ MonthIndex(next) = MonthIndex(occurrences[i]) + recurrenceRule.interval
              /\ getDate(next) = Min(Get(recurrenceRule.monthDay),
                                     DaysInMonth(getFullYear(next), getMonth(next)))

Ordinal(week) ==
    CASE week = "first" -> 1
      [] week = "second" -> 2
      [] week = "third" -> 3
      [] week = "fourth" -> 4

\* The days of the month of date that fall on weekday.
WeekdayDatesOfMonth(date, weekday) ==
    {d \in 1..DaysInMonth(getFullYear(date), getMonth(date)) :
        getDay(NewDate(getFullYear(date), getMonth(date), d)) = weekday}

\* C8 (NthSpec): getNthWeekdayInMonth returns a date of the month of its
\* argument, on the requested weekday: for first..fourth the 1st..4th such
\* date of the month, for last the latest one, within the final 7 days.
C8_NthWeekday ==
    IsSome(nthResult)
    => LET r == Get(nthResult)
           same == WeekdayDatesOfMonth(nthArgs.date, nthArgs.weekday)
       IN  /\ MonthIndex(r) = MonthIndex(nthArgs.date)
           /\ getDay(r) = nthArgs.weekday
           /\ IF nthArgs.week = "last"
              THEN /\ \A d \in same : d <= getDate(r)
                   /\ getDate(r) > DaysInMonth(getFullYear(r), getMonth(r)) - 7
              ELSE Cardinality({d \in same : d <= getDate(r)}) = Ordinal(nthArgs.week)

\* The second Tuesday of a month whose first Tuesday is the 3rd: the 10th.
C8_Witness ==
    /\ IsSome(nthResult)
    /\ nthArgs.week = "second"
    /\ nthArgs.weekday = 2
    /\ 3 \in WeekdayDatesOfMonth(nthArgs.date, 2)
    /\ getDate(Get(nthResult)) = 10

\* C9 (UiSpec): the rule handed to the generator has interval >= 1.
C9_IntervalAtLeastOne == recurrenceRule.interval >= 1

\* C10 (UiSpec): once weekdays have been toggled on a weekly rule, its
\* daysOfWeek is not empty.
C10_WeekdaysNonEmpty ==
    (recurrenceRule.type = "weekly" /\ IsSome(recurrenceRule.daysOfWeek))
    => Len(Get(recurrenceRule.daysOfWeek)) > 0

\* C11 (UiSpec): whenever the rule handed to the generator has an endDate,
\* that endDate is on or after the rule's startDate (by calendar date).
C11_EndNotBeforeStart ==
    IsSome(recurrenceRule.endDate)
    => Get(recurrenceRule.endDate).day >= recurrenceRule.startDate.day

\* C12 (UiSpec): for a monthly rule of interval >= 1 in which an ordinal and
\* a weekday have been chosen, every occurrence after startDate of the list
\* the hook computes is that nth weekday of the month interval months after
\* the month of the occurrence before it; a leftover monthDay does not
\* decide it.
C12_NthWeekdayDecides ==
    (/\ recurrenceRule.type = "monthly"
     /\ IsSome(recurrenceRule.monthWeek)
     /\ IsSome(recurrenceRule.monthWeekDay)
     /\ recurrenceRule.interval >= 1)
    => LET occs == generateOccurrences(recurrenceRule, DefaultCount)
           week == Get(recurrenceRule.monthWeek)
           weekday == Get(recurrenceRule.monthWeekDay)
       IN  \A i \in 1..(Len(occs) - 1) :
              LET next == occs[i + 1]
                  same == WeekdayDatesOfMonth(next, weekday)
              IN  /\ MonthIndex(next) = MonthIndex(occs[i]) + recurrenceRule.interval
                  /\ getDay(next) = weekday
                  /\ IF week = "last"
                     THEN \A d \in same : d <= getDate(next)
                     ELSE Cardinality({d \in same : d <= getDate(next)}) = Ordinal(week)

====
